---- MODULE Spec2Model ----
(***************************************************************************)
(* Model of the phoneme alignment and scoring engine of                    *)
(* src/src/pronunciation/pronunciation_metrics.py.                         *)
(*                                                                         *)
(* A phoneme symbol (a Python str) is a sequence of one-character strings, *)
(* so that upper-casing and digit stripping act on characters as they do   *)
(* in the source.                                                          *)
(*                                                                         *)
(* The similarity scores and the alignment costs are IEEE-754 doubles in   *)
(* the source, and the order of two costs that are equal as decimals can   *)
(* depend on their rounding (0.8 + 0.8 + 1 + 1 is 3.6, but                 *)
(* 0.8 + 1 + 1 + 0.8 is 3.5999999999999996).  A double v is the record     *)
(* [t, r]: t is the decimal it stands for, in tenths, and r is the exact   *)
(* difference v - t/10 in units of 2^-53 / 5, so that                      *)
(* v * 5 * 2^53 = t * 2^52 + r.  Addition rounds to nearest, ties to even. *)
(***************************************************************************)
EXTENDS Integers, Sequences, FiniteSets, TLC

\* ------------------------------------------------------------------ bounds
MaxLen == 3
MaxTiers == 2
MaxIntervals == 2

\* -------------------------------------------------------------- characters
LowerCase == <<"a","b","c","d","e","f","g","h","i","j","k","l","m",
               "n","o","p","q","r","s","t","u","v","w","x","y","z">>
UpperCase == <<"A","B","C","D","E","F","G","H","I","J","K","L","M",
               "N","O","P","Q","R","S","T","U","V","W","X","Y","Z">>
Digits == {"0","1","2","3","4","5","6","7","8","9"}
Whitespace == {" "}

\* str.upper() on one character
upper_char(c) ==
  IF \E k \in DOMAIN LowerCase : LowerCase[k] = c
  THEN UpperCase[CHOOSE k \in DOMAIN LowerCase : LowerCase[k] = c]
  ELSE c

\* str.upper()
upper(s) == [k \in DOMAIN s |-> upper_char(s[k])]

\* str.isdigit() on one character
isdigit(c) == c \in Digits

\* str.strip() is non-empty: some character is not whitespace
strip_nonempty(s) == \E k \in DOMAIN s : s[k] \notin Whitespace

\* ------------------------------------------------------------ the symbols
AA == <<"A","A">>
AO == <<"A","O">>
AH == <<"A","H">>
GAP == <<"G","A","P">>
PLACEHOLDER == <<"-","-","-">>

\* IPA_TO_CMU; a non-ASCII IPA character is written as its code point
IPA_TO_CMU_KEYS ==
  { <<"f">>, <<"U+00F0">>, <<"U+00E6">>, <<"U+0288">>, <<"U+025B">>,
    <<"U+0272">>, <<"U+014B">>, <<"U+0261">>, <<"U+0283">>, <<"U+028A">>,
    <<"U+0289","U+02D0">>, <<"a","j">>, <<"s","p","n">>, <<"a">>, <<"i">>,
    <<"h">>, <<"n">>, <<"d">>, <<"z">>, <<"t">>, <<"m">>, <<"v">> }

IPA_TO_CMU(k) ==
  CASE k = <<"f">> -> <<"F">>
    [] k = <<"U+00F0">> -> <<"D","H">>
    [] k = <<"U+00E6">> -> <<"A","E">>
    [] k = <<"U+0288">> -> <<"T">>
    [] k = <<"U+025B">> -> <<"E","H">>
    [] k = <<"U+0272">> -> <<"N">>
    [] k = <<"U+014B">> -> <<"N","G">>
    [] k = <<"U+0261">> -> <<"G">>
    [] k = <<"U+0283">> -> <<"S","H">>
    [] k = <<"U+028A">> -> <<"U","H">>
    [] k = <<"U+0289","U+02D0">> -> <<"U","W">>
    [] k = <<"a","j">> -> <<"A","Y">>
    [] k = <<"s","p","n">> -> <<"U","N","K">>
    [] k = <<"a">> -> <<"A","A">>
    [] k = <<"i">> -> <<"I","Y">>
    [] k = <<"h">> -> <<"H","H">>
    [] k = <<"n">> -> <<"N">>
    [] k = <<"d">> -> <<"D">>
    [] k = <<"z">> -> <<"Z">>
    [] k = <<"t">> -> <<"T">>
    [] k = <<"m">> -> <<"M">>
    [] k = <<"v">> -> <<"V">>

\* the known (mapped) symbols: the values of IPA_TO_CMU
MappedSymbols == { IPA_TO_CMU(k) : k \in IPA_TO_CMU_KEYS }

convert_ipa_to_cmu(ipa_phoneme) ==
  IF ipa_phoneme \in IPA_TO_CMU_KEYS THEN IPA_TO_CMU(ipa_phoneme)
  ELSE upper(ipa_phoneme)

strip_stress_markers(phoneme) == SelectSeq(phoneme, LAMBDA c : ~isdigit(c))

\* ------------------------------------------------------ float64 values
F(t, r) == [t |-> t, r |-> r]

\* the binade of the exact value t/10 + r units: b with 2^(b-1) <= value < 2^b
Binade(t, r) ==
  CASE (t > 5 \/ (t = 5 /\ r >= 0)) /\ (t < 10 \/ (t = 10 /\ r < 0)) -> 0
    [] (t > 10 \/ (t = 10 /\ r >= 0)) /\ (t < 20 \/ (t = 20 /\ r < 0)) -> 1
    [] (t > 20 \/ (t = 20 /\ r >= 0)) /\ (t < 40 \/ (t = 40 /\ r < 0)) -> 2
    [] (t > 40 \/ (t = 40 /\ r >= 0)) /\ (t < 80 \/ (t = 80 /\ r < 0)) -> 3
    [] (t > 80 \/ (t = 80 /\ r >= 0)) /\ (t < 160 \/ (t = 160 /\ r < 0)) -> 4

Pow2(b) == CASE b = 0 -> 1 [] b = 1 -> 2 [] b = 2 -> 4 [] b = 3 -> 8 [] b = 4 -> 16

\* 2^(52 - b) modulo 5
Pow2Mod5(b) == CASE b = 0 -> 1 [] b = 1 -> 3 [] b = 2 -> 4 [] b = 3 -> 2 [] b = 4 -> 1

\* the double nearest to the exact value t/10 + r units (ties to even).  One
\* ulp of binade b is G = 5 * 2^b units; t * 2^52 = q * G + 2^b * c with
\* c = (t * 2^(52-b)) % 5, and q has the parity of c
FloatRound(t, r) ==
  IF t = 0 /\ r = 0 THEN F(0, 0)
  ELSE LET b == Binade(t, r)
           G == 5 * Pow2(b)
           c == (t * Pow2Mod5(b)) % 5
           D == Pow2(b) * c + r
           fl == IF D >= 0 THEN D \div G ELSE -((-D + G - 1) \div G)
           f == D - fl * G
           k == IF 2 * f < G THEN fl
                ELSE IF 2 * f > G THEN fl + 1
                ELSE IF (c + fl) % 2 = 0 THEN fl ELSE fl + 1
       IN  F(t, k * G - Pow2(b) * c)

\* x + y, i * x, x <= y and x > y on doubles
FloatAdd(x, y) == FloatRound(x.t + y.t, x.r + y.r)
FloatMul(n, x) == FloatRound(n * x.t, n * x.r)
FloatLeq(x, y) == x.t < y.t \/ (x.t = y.t /\ x.r <= y.r)
FloatGt(x, y) == ~FloatLeq(x, y)

\* ------------------------------------------------------- similarity model
ExactScore == F(10, 0)     \* 1.0
PartialScore == F(8, 2)    \* 0.8
NoScore == F(0, 0)         \* 0.0
MatchThreshold == F(7, -2) \* 0.7
GapPenalty == F(8, 2)      \* 0.8
MismatchCost == F(10, 0)   \* 1
MatchCost == F(0, 0)       \* 0

ConfusableClass == {AA, AO, AH}

get_alignment_score(p1, p2) ==
  IF strip_stress_markers(upper(p1)) = strip_stress_markers(upper(p2))
  THEN ExactScore
  ELSE IF p1 \in ConfusableClass /\ p2 \in ConfusableClass
       THEN PartialScore
       ELSE NoScore

\* ---------------------------------------------------------------- state
VARIABLES
  tg,           \* the annotation read by extract_phonemes_from_textgrid
  phonemes,     \* its result: the list of {text, start, end} records
  p1, p2, sim,  \* arguments and result of one get_alignment_score call
  actual,       \* align_sequences: observed sequence
  reference,    \* align_sequences: reference sequence
  dp, bp,       \* align_sequences: score and backpointer matrices
  i, j,         \* align_sequences: backtracking position
  aligned,      \* align_sequences: the pair list
  matches,      \* analyze_pronunciation: per-position report
  score,        \* analyze_pronunciation: overall score, num/den in tenths
  pc            \* position of the call in progress

vars == <<tg, phonemes, p1, p2, sim, actual, reference, dp, bp, i, j,
          aligned, matches, score, pc>>

alignVars == <<actual, reference, dp, bp, i, j, aligned, matches, score>>
simVars == <<p1, p2, sim>>
extractVars == <<tg, phonemes>>

\* sequences over S of length at most k
SeqsUpTo(S, k) == UNION { [1..len -> S] : len \in 0..k }

RECURSIVE Reverse(_)
Reverse(s) == IF s = <<>> THEN <<>> ELSE Append(Reverse(Tail(s)), Head(s))

\* the alphabets the sequences are drawn from: observed symbols are results
\* of convert_ipa_to_cmu, reference symbols may carry a stress digit
AA1 == <<"A","A","1">>
T == <<"T">>
ActualSymbols == {AA, AO, T}
ReferenceSymbols == {AA, AA1, T}

\* ------------------------------------------------------- align_sequences
\* np.zeros plus the first row and column
InitMatrices(n, m) ==
  [ dp |-> [c \in (0..n) \X (0..m) |->
              IF c[2] = 0 THEN FloatMul(c[1], GapPenalty)
              ELSE IF c[1] = 0 THEN FloatMul(c[2], GapPenalty) ELSE F(0, 0)],
    bp |-> [c \in (0..n) \X (0..m) |-> 0] ]

\* FillCell with the insertion step priced as a mismatch
FillCell_UpCostsMismatch(M, a, r, x, y) ==
  LET match_score == get_alignment_score(a[x], r[y])
      diag == FloatAdd(M.dp[<<x-1, y-1>>],
                       IF FloatGt(match_score, MatchThreshold) THEN MatchCost ELSE MismatchCost)
      up == FloatAdd(M.dp[<<x-1, y>>], MismatchCost)
      left == FloatAdd(M.dp[<<x, y-1>>], GapPenalty)
  IN  IF FloatLeq(diag, up) /\ FloatLeq(diag, left)
      THEN [dp |-> [M.dp EXCEPT ![<<x, y>>] = diag], bp |-> [M.bp EXCEPT ![<<x, y>>] = 0]]
      ELSE IF FloatLeq(up, left)
      THEN [dp |-> [M.dp EXCEPT ![<<x, y>>] = up], bp |-> [M.bp EXCEPT ![<<x, y>>] = 1]]
      ELSE [dp |-> [M.dp EXCEPT ![<<x, y>>] = left], bp |-> [M.bp EXCEPT ![<<x, y>>] = 2]]

\* body of the fill loops for one cell
FillCell(M, a, r, x, y) ==
  LET match_score == get_alignment_score(a[x], r[y])
      diag == FloatAdd(M.dp[<<x-1, y-1>>],
                       IF FloatGt(match_score, MatchThreshold) THEN MatchCost ELSE MismatchCost)
      up == FloatAdd(M.dp[<<x-1, y>>], GapPenalty)
      left == FloatAdd(M.dp[<<x, y-1>>], GapPenalty)
  IN  IF FloatLeq(diag, up) /\ FloatLeq(diag, left)
      THEN [dp |-> [M.dp EXCEPT ![<<x, y>>] = diag], bp |-> [M.bp EXCEPT ![<<x, y>>] = 0]]
      ELSE IF FloatLeq(up, left)
      THEN [dp |-> [M.dp EXCEPT ![<<x, y>>] = up], bp |-> [M.bp EXCEPT ![<<x, y>>] = 1]]
      ELSE [dp |-> [M.dp EXCEPT ![<<x, y>>] = left], bp |-> [M.bp EXCEPT ![<<x, y>>] = 2]]

\* the fill loops from cell (x, y) on, row by row
RECURSIVE FillFrom(_, _, _, _, _)
FillFrom(M, a, r, x, y) ==
  IF x > Len(a) THEN M
  ELSE IF y > Len(r) THEN FillFrom(M, a, r, x + 1, 1)
  ELSE FillFrom(FillCell(M, a, r, x, y), a, r, x, y + 1)

FillMatrices(a, r) == FillFrom(InitMatrices(Len(a), Len(r)), a, r, 1, 1)

\* Python list indexing: a negative index counts from the end
list_index_ok(s, k) == -Len(s) <= k /\ k < Len(s)
list_get(s, k) == s[(IF k < 0 THEN k + Len(s) ELSE k) + 1]

\* numpy indexing along an axis of the given size
np_index_ok(k, size) == -size <= k /\ k < size
np_index(k, size) == IF k < 0 THEN k + size ELSE k
bp_get(x, y) == bp[<<np_index(x, Len(actual) + 1), np_index(y, Len(reference) + 1)>>]
bp_ok(x, y) == np_index_ok(x, Len(actual) + 1) /\ np_index_ok(y, Len(reference) + 1)

\* lines 84-117: matrices filled, backtracking starts at (n, m)
Fill ==
  /\ pc = "align"
  /\ LET M == FillMatrices(actual, reference)
     IN  /\ dp' = M.dp
         /\ bp' = M.bp
  /\ i' = Len(actual)
  /\ j' = Len(reference)
  /\ aligned' = <<>>
  /\ pc' = "backtrack"
  /\ UNCHANGED <<actual, reference, matches, score, simVars, extractVars>>

\* the conditions of the backtracking loop, with Python's short circuit
LoopCond == i > 0 \/ j > 0
IsMatchStep == i > 0 /\ j > 0 /\ bp_get(i, j) = 0
IsRefGapStep == ~IsMatchStep /\ i > 0 /\ bp_ok(i, j) /\ bp_get(i, j) = 1
IsActualGapStep == ~IsMatchStep /\ ~(i > 0 /\ bp_ok(i, j) /\ bp_get(i, j) = 1)
                   /\ (i > 0 => bp_ok(i, j))

\* lines 119-124
BacktrackMatch ==
  /\ pc = "backtrack" /\ LoopCond /\ IsMatchStep
  /\ aligned' = Append(aligned, <<actual[i], reference[j],
                                  get_alignment_score(actual[i], reference[j])>>)
  /\ i' = i - 1
  /\ j' = j - 1
  /\ UNCHANGED <<actual, reference, dp, bp, matches, score, pc, simVars, extractVars>>

\* lines 125-128
BacktrackGapInRef ==
  /\ pc = "backtrack" /\ LoopCond /\ IsRefGapStep
  /\ aligned' = Append(aligned, <<actual[i], GAP, NoScore>>)
  /\ i' = i - 1
  /\ UNCHANGED <<actual, reference, dp, bp, j, matches, score, pc, simVars, extractVars>>

\* lines 129-132, reference[j-1] in range
BacktrackGapInActual ==
  /\ pc = "backtrack" /\ LoopCond /\ IsActualGapStep
  /\ list_index_ok(reference, j - 1)
  /\ aligned' = Append(aligned, <<GAP, list_get(reference, j - 1), NoScore>>)
  /\ j' = j - 1
  /\ UNCHANGED <<actual, reference, dp, bp, i, matches, score, pc, simVars, extractVars>>

\* lines 125 and 131: bp[i, j] or reference[j-1] out of range raises IndexError
\* (reference[j-1] is the one that does: j - 1 < -m is reached before j < -(m+1))
BacktrackIndexError ==
  /\ pc = "backtrack" /\ LoopCond /\ ~IsMatchStep
  /\ \/ i > 0 /\ ~bp_ok(i, j)
     \/ IsActualGapStep /\ ~list_index_ok(reference, j - 1)
  /\ pc' = "IndexError"
  /\ UNCHANGED <<alignVars, simVars, extractVars>>

\* AlignReturn without the reversal
AlignReturn_NoReverse ==
  /\ pc = "backtrack" /\ ~LoopCond
  /\ pc' = "aligned"
  /\ UNCHANGED <<actual, reference, dp, bp, i, j, aligned, matches, score, simVars, extractVars>>

\* line 134
AlignReturn ==
  /\ pc = "backtrack" /\ ~LoopCond
  /\ aligned' = Reverse(aligned)
  /\ pc' = "aligned"
  /\ UNCHANGED <<actual, reference, dp, bp, i, j, matches, score, simVars, extractVars>>

\* ------------------------------------------------- analyze_pronunciation
\* MatchRecord deciding a match by equality of the two strings
MatchRecord_StringEquality(pair) ==
  [ actual |-> IF pair[1] # GAP THEN pair[1] ELSE PLACEHOLDER,
    reference |-> IF pair[2] # GAP THEN pair[2] ELSE PLACEHOLDER,
    match |-> pair[1] # GAP /\ pair[2] # GAP /\ pair[1] = pair[2],
    score |-> pair[3] ]

\* one element of the list comprehension of lines 145-153
MatchRecord(pair) ==
  [ actual |-> IF pair[1] # GAP THEN pair[1] ELSE PLACEHOLDER,
    reference |-> IF pair[2] # GAP THEN pair[2] ELSE PLACEHOLDER,
    match |-> pair[1] # GAP /\ pair[2] # GAP /\ FloatGt(pair[3], MatchThreshold),
    score |-> pair[3] ]

\* valid_matches keeping the gap records
valid_matches_WithGaps(ms) == ms

\* line 156
valid_matches(ms) ==
  SelectSeq(ms, LAMBDA m : m.actual # PLACEHOLDER /\ m.reference # PLACEHOLDER)

\* sum(): the int 0 plus the scores, left to right
RECURSIVE FloatSum(_)
FloatSum(ms) ==
  IF ms = <<>> THEN F(0, 0)
  ELSE FloatAdd(FloatSum(SubSeq(ms, 1, Len(ms) - 1)), ms[Len(ms)].score)

\* line 157: the quotient sum / len, kept as its two operands; 0 is 0 / 1
OverallScore(ms) ==
  IF valid_matches(ms) # <<>>
  THEN [num |-> FloatSum(valid_matches(ms)), den |-> Len(valid_matches(ms))]
  ELSE [num |-> F(0, 0), den |-> 1]

\* lines 144-166
Analyze ==
  /\ pc = "aligned"
  /\ matches' = [k \in DOMAIN aligned |-> MatchRecord(aligned[k])]
  /\ score' = OverallScore([k \in DOMAIN aligned |-> MatchRecord(aligned[k])])
  /\ pc' = "done"
  /\ UNCHANGED <<actual, reference, dp, bp, i, j, aligned, simVars, extractVars>>

Init ==
  /\ actual \in SeqsUpTo(ActualSymbols, MaxLen)
  /\ reference \in SeqsUpTo(ReferenceSymbols, MaxLen)
  /\ dp = <<>> /\ bp = <<>> /\ i = 0 /\ j = 0
  /\ aligned = <<>> /\ matches = <<>> /\ score = [num |-> F(0, 0), den |-> 1]
  /\ tg = <<>> /\ phonemes = <<>>
  /\ p1 = <<>> /\ p2 = <<>> /\ sim = F(0, 0)
  /\ pc = "align"

Next ==
  \/ Fill
  \/ BacktrackMatch
  \/ BacktrackGapInRef
  \/ BacktrackGapInActual
  \/ BacktrackIndexError
  \/ AlignReturn
  \/ Analyze

Spec == Init /\ [][Next]_vars

\* ---------------------------------------------- get_alignment_score alone
Lower_aa == <<"a","a">>
Lower_t == <<"t">>
AO0 == <<"A","O","0">>
AH2 == <<"A","H","2">>
T1 == <<"T","1">>
UNK == <<"U","N","K">>
SimSymbols == {AA, AA1, Lower_aa, AO, AO0, AH, AH2, T, Lower_t, T1, UNK}

InitSim ==
  /\ p1 \in SimSymbols
  /\ p2 \in SimSymbols
  /\ sim = F(0, 0)
  /\ actual = <<>> /\ reference = <<>>
  /\ dp = <<>> /\ bp = <<>> /\ i = 0 /\ j = 0
  /\ aligned = <<>> /\ matches = <<>> /\ score = [num |-> F(0, 0), den |-> 1]
  /\ tg = <<>> /\ phonemes = <<>>
  /\ pc = "score"

\* lines 69-76
Score ==
  /\ pc = "score"
  /\ sim' = get_alignment_score(p1, p2)
  /\ pc' = "scored"
  /\ UNCHANGED <<p1, p2, alignVars, extractVars>>

NextSim == Score

SpecSim == InitSim /\ [][NextSim]_vars

\* ------------------------------------------ extract_phonemes_from_textgrid
TierName == "phones"
TierNames == {"phones", "words"}
Blank == <<" ">>
Mark_a == <<"a">>
Marks == {Blank, Mark_a}

\* the intervals of a tier: consecutive, one time unit each
Intervals(ms) == [k \in DOMAIN ms |-> [mark |-> ms[k], minTime |-> k - 1, maxTime |-> k]]

Tiers == { [name |-> nm, intervals |-> Intervals(ms)] :
             nm \in TierNames, ms \in SeqsUpTo(Marks, MaxIntervals) }

\* what TextGrid.fromFile yields: the tiers, or an error for an unreadable file
TextGrids == { [readable |-> TRUE, tiers |-> ts] : ts \in SeqsUpTo(Tiers, MaxTiers) }
             \cup { [readable |-> FALSE, tiers |-> <<>>] }

InitExtract ==
  /\ tg \in TextGrids
  /\ phonemes = <<>>
  /\ actual = <<>> /\ reference = <<>>
  /\ dp = <<>> /\ bp = <<>> /\ i = 0 /\ j = 0
  /\ aligned = <<>> /\ matches = <<>> /\ score = [num |-> F(0, 0), den |-> 1]
  /\ p1 = <<>> /\ p2 = <<>> /\ sim = F(0, 0)
  /\ pc = "extract"

\* line 44: the tiers whose name is tier_name
TiersNamed(g, tier_name) == SelectSeq(g.tiers, LAMBDA t : t.name = tier_name)

\* lines 47-53: the non-blank intervals of a tier
PhonemesOf(tier) ==
  LET kept == SelectSeq(tier.intervals, LAMBDA iv : strip_nonempty(iv.mark))
  IN  [k \in DOMAIN kept |->
         [text |-> kept[k].mark, start |-> kept[k].minTime, end |-> kept[k].maxTime]]

\* extract_phonemes_from_textgrid falling back to the first tier
extract_phonemes_FirstTierFallback(g, tier_name) ==
  IF TiersNamed(g, tier_name) # <<>> THEN PhonemesOf(TiersNamed(g, tier_name)[1])
  ELSE IF g.tiers # <<>> THEN PhonemesOf(g.tiers[1])
  ELSE <<>>

\* lines 40-59; [0] of an empty list raises IndexError, caught at line 55
extract_phonemes_from_textgrid(g, tier_name) ==
  IF TiersNamed(g, tier_name) = <<>> THEN <<>>
  ELSE PhonemesOf(TiersNamed(g, tier_name)[1])

\* line 39 raises: outside the try, the error reaches the caller
ExtractRaise ==
  /\ pc = "extract"
  /\ ~tg.readable
  /\ pc' = "raised"
  /\ UNCHANGED <<extractVars, alignVars, simVars>>

\* lines 36-59, called at line 138 with the default tier name
Extract ==
  /\ pc = "extract"
  /\ tg.readable
  /\ phonemes' = extract_phonemes_from_textgrid(tg, TierName)
  /\ pc' = "extracted"
  /\ UNCHANGED <<tg, alignVars, simVars>>

\* line 139
Convert ==
  /\ pc = "extracted"
  /\ actual' = [k \in DOMAIN phonemes |-> convert_ipa_to_cmu(phonemes[k].text)]
  /\ pc' = "converted"
  /\ UNCHANGED <<extractVars, reference, dp, bp, i, j, aligned, matches, score, simVars>>

NextExtract ==
  \/ ExtractRaise
  \/ Extract
  \/ Convert

SpecExtract == InitExtract /\ [][NextExtract]_vars

\* =================================================================== claims
n_actual == Len(actual)
m_reference == Len(reference)
Returned == pc \in {"aligned", "done"}

IsGapPair(pair) == pair[1] = GAP \/ pair[2] = GAP
IsInsertion(pair) == pair[1] # GAP /\ pair[2] = GAP
IsDeletion(pair) == pair[1] = GAP /\ pair[2] # GAP
IsSubstitution(pair) == pair[1] # GAP /\ pair[2] # GAP

\* the observed-side and reference-side entries of a pair list, gaps skipped
ObservedSide(al) ==
  LET kept == SelectSeq(al, LAMBDA pr : pr[1] # GAP)
  IN  [k \in DOMAIN kept |-> kept[k][1]]
ReferenceSide(al) ==
  LET kept == SelectSeq(al, LAMBDA pr : pr[2] # GAP)
  IN  [k \in DOMAIN kept |-> kept[k][2]]

Count(al, Test(_)) == Len(SelectSeq(al, Test))

\* a pairing is accepted when its similarity exceeds 0.7
Accepted(a, r) == FloatGt(get_alignment_score(a, r), F(7, -2))

\* C1: for every observed and reference sequence align_sequences returns a
\* pair list that covers both in order: its observed side without gaps is
\* the observed sequence, its reference side without gaps is the reference
\* sequence, substitutions + insertions = len(observed) and
\* substitutions + deletions = len(reference)
C1_CompleteCovering ==
  /\ pc # "IndexError"
  /\ Returned =>
       /\ ObservedSide(aligned) = actual
       /\ ReferenceSide(aligned) = reference
       /\ Count(aligned, IsSubstitution) + Count(aligned, IsInsertion) = n_actual
       /\ Count(aligned, IsSubstitution) + Count(aligned, IsDeletion) = m_reference

\* C2: with an empty observed or reference sequence alignment and scoring do
\* not fail: the pair list is one gap pair per symbol of the other sequence,
\* in order, and the overall score is 0
C2_EmptySequences ==
  (actual = <<>> \/ reference = <<>>) =>
    /\ pc # "IndexError"
    /\ Returned =>
         aligned = IF actual = <<>>
                   THEN [k \in DOMAIN reference |-> <<GAP, reference[k], F(0, 0)>>]
                   ELSE [k \in DOMAIN actual |-> <<actual[k], GAP, F(0, 0)>>]
    /\ pc = "done" => score.num = F(0, 0)

\* the cost of a pair list, in tenths: 0 for an accepted pair, 1 for any
\* other substitution, 0.8 for an insertion or a deletion
RECURSIVE AlignmentCost(_)
AlignmentCost(al) ==
  IF al = <<>> THEN 0
  ELSE AlignmentCost(Tail(al))
       + (IF IsGapPair(Head(al)) THEN 8
          ELSE IF Accepted(Head(al)[1], Head(al)[2]) THEN 0 ELSE 10)

Min3(x, y, z) == IF x <= y /\ x <= z THEN x ELSE IF y <= z THEN y ELSE z

\* the least cost of an order-preserving global alignment of a and r
RECURSIVE MinCost(_, _)
MinCost(a, r) ==
  IF a = <<>> THEN 8 * Len(r)
  ELSE IF r = <<>> THEN 8 * Len(a)
  ELSE Min3(MinCost(Tail(a), Tail(r)) + (IF Accepted(Head(a), Head(r)) THEN 0 ELSE 10),
            MinCost(Tail(a), r) + 8,
            MinCost(a, Tail(r)) + 8)

\* C3: for every pair of input sequences the pair list align_sequences
\* returns has the minimum cost over all global alignments of the two
C3_MinimumCost ==
  /\ pc # "IndexError"
  /\ Returned => AlignmentCost(aligned) = MinCost(actual, reference)

\* C9: backtracking stays inside the grid and reads no symbol outside its
\* sequence: 0 <= i <= n and 0 <= j <= m in every iteration, no IndexError,
\* the loop ends at (0, 0), and every step goes the way of the choice stored
\* for its cell (on the border: the one possible way)
C9_InGrid ==
  /\ pc = "backtrack" => i \in 0..n_actual /\ j \in 0..m_reference
  /\ pc # "IndexError"
  /\ Returned => i = 0 /\ j = 0

C9_StepFollowsChoice ==
  (pc = "backtrack" /\ pc' = "backtrack") =>
    IF i > 0 /\ j > 0
    THEN CASE bp[<<i, j>>] = 0 -> i' = i - 1 /\ j' = j - 1
           [] bp[<<i, j>>] = 1 -> i' = i - 1 /\ j' = j
           [] bp[<<i, j>>] = 2 -> i' = i /\ j' = j - 1
    ELSE IF i > 0 THEN i' = i - 1 /\ j' = j
    ELSE i' = i /\ j' = j - 1

C9_BacktrackPath == [](C9_InGrid) /\ [][C9_StepFollowsChoice]_vars

\* strip_stress_markers(upper(.))
Normalized(p) == strip_stress_markers(upper(p))

\* C10: the similarity of two symbols is the similarity of their normalized
\* forms (upper-cased, stress digits stripped)
C10_NormalizationInvariant ==
  pc = "scored" => sim = get_alignment_score(Normalized(p1), Normalized(p2))

\* the tier named TierName is absent from a readable annotation
TierAbsent == tg.readable /\ \A k \in DOMAIN tg.tiers : tg.tiers[k].name # TierName

\* C4 as stated: with no tier of the requested name extraction fails with an
\* error and returns no phoneme sequence
C4_AbsentTierFails ==
  (pc # "extract" /\ TierAbsent) => pc = "raised"

\* C4 as amended: with no tier of the requested name extraction reports no
\* error: it returns the empty phoneme sequence, whatever the other tiers
\* hold, and the observed sequence of the analysis is empty
C4_AbsentTierYieldsEmpty ==
  (pc # "extract" /\ TierAbsent) =>
    /\ pc \in {"extracted", "converted"}
    /\ phonemes = <<>>
    /\ actual = <<>>

C4_Witness ==
  /\ pc = "converted"
  /\ TierAbsent
  /\ \E k \in DOMAIN tg.tiers :
       \E x \in DOMAIN tg.tiers[k].intervals :
         strip_nonempty(tg.tiers[k].intervals[x].mark)
  /\ phonemes = <<>>

\* s without its k-th element
RemoveAt(s, k) == [x \in 1..(Len(s) - 1) |-> IF x < k THEN s[x] ELSE s[x + 1]]

\* actual is reference with one symbol, matching no reference symbol,
\* inserted at position k
InsertedAt(k) ==
  /\ k \in DOMAIN actual
  /\ RemoveAt(actual, k) = reference
  /\ \A y \in DOMAIN reference : ~Accepted(actual[k], reference[y])

\* C5: one extra non-matching symbol inserted anywhere into an observed
\* sequence equal to the reference raises the alignment cost dp[n, m] by
\* exactly 0.8 over the cost of aligning the reference with itself
C5_InsertionCostsOneGap ==
  pc \in {"backtrack", "aligned", "done", "IndexError"} =>
    \A k \in DOMAIN actual :
      InsertedAt(k) =>
        dp[<<n_actual, m_reference>>] =
          FloatAdd(FillMatrices(reference, reference).dp[<<m_reference, m_reference>>],
                   F(8, 2))

C5_Witness ==
  /\ pc = "backtrack"
  /\ m_reference >= 2
  /\ \E k \in DOMAIN actual : k > 1 /\ k < n_actual /\ InsertedAt(k)
  /\ dp[<<n_actual, m_reference>>] = F(8, 2)

\* the sum of the similarities of the pairs, left to right
RECURSIVE SimilaritySum(_)
SimilaritySum(prs) ==
  IF prs = <<>> THEN F(0, 0)
  ELSE FloatAdd(SimilaritySum(SubSeq(prs, 1, Len(prs) - 1)),
                get_alignment_score(prs[Len(prs)][1], prs[Len(prs)][2]))

\* C6: the overall score is the mean of the similarities of the
\* match/substitution pairs alone, 0 when there is none, and lies in [0, 1]
C6_MeanOfSubstitutions ==
  pc = "done" =>
    LET P == SelectSeq(aligned, IsSubstitution)
    IN  /\ P = <<>> => score.num = F(0, 0)
        /\ P # <<>> => score = [num |-> SimilaritySum(P), den |-> Len(P)]
        /\ score.den >= 1
        /\ FloatLeq(F(0, 0), score.num)
        /\ FloatLeq(score.num, F(10 * score.den, 0))

C6_Witness ==
  /\ pc = "done"
  /\ \E k \in DOMAIN aligned : IsGapPair(aligned[k])
  /\ score.den = 2
  /\ score.num = F(18, 2)

\* C7: a record with match = true has both sides present and a similarity
\* above 0.7, and a pair of two symbols of similarity 1.0 has match = true
C7_ThresholdConsistency ==
  pc = "done" =>
    \A k \in DOMAIN matches :
      /\ matches[k].match =>
           IsSubstitution(aligned[k]) /\ Accepted(aligned[k][1], aligned[k][2])
      /\ ( IsSubstitution(aligned[k])
           /\ get_alignment_score(aligned[k][1], aligned[k][2]) = F(10, 0) )
         => matches[k].match

C7_Witness ==
  /\ pc = "done"
  /\ \E k \in DOMAIN matches :
       matches[k].match /\ aligned[k][1] # aligned[k][2] /\ aligned[k][3] = F(10, 0)
  /\ \E k \in DOMAIN matches : matches[k].match /\ aligned[k][3] = F(8, 2)
  /\ \E k \in DOMAIN matches : IsSubstitution(aligned[k]) /\ ~matches[k].match

\* a non-empty sequence of mapped symbols aligned with itself
IdentityInput ==
  /\ actual = reference
  /\ actual # <<>>
  /\ \A k \in DOMAIN actual : actual[k] \in MappedSymbols

\* C8: a non-empty sequence S of mapped symbols aligned with itself gives
\* len(S) pairs, the k-th pairing S[k] with S[k] as a match, no gap, and an
\* overall score of 1.0
C8_IdentityAlignment ==
  IdentityInput =>
    /\ pc # "IndexError"
    /\ Returned =>
         aligned = [k \in DOMAIN actual |-> <<actual[k], actual[k], F(10, 0)>>]
    /\ pc = "done" =>
         /\ Len(matches) = n_actual
         /\ \A k \in DOMAIN matches : matches[k].match
         /\ score = [num |-> F(10 * n_actual, 0), den |-> n_actual]

C8_Witness ==
  /\ pc = "done"
  /\ IdentityInput
  /\ n_actual >= 2
  /\ actual[1] # actual[2]

====
